---- MODULE Spec2Model ----
(***************************************************************************)
(* eotel: a correlation handle (Eotel) binding a zap logger, an            *)
(* OpenTelemetry span and two metric instruments.  The handle modelled     *)
(* here is the one of src/unnamed/part_001; src/eotel.go is its earlier    *)
(* variant, the one Middleware in src/sentry.go uses, and is modelled      *)
(* where it differs (the operators named ...Method).  src/loki.go is the   *)
(* export worker.                                                          *)
(*                                                                         *)
(* The tracer, the spans, the logger and the metric instruments are        *)
(* collaborators: the model records the calls the handle makes on them.    *)
(***************************************************************************)
EXTENDS Integers, Sequences, FiniteSets, TLC

VARIABLES
    globalCfg,    \* config.go: var globalCfg Config (the toggles the handle reads)
    handles,      \* the *Eotel values allocated so far; a handle is its index
    spans,        \* the spans started on the tracer; a span is its index, 0 is nil
    lines,        \* zap.L(): lines written per level, the last line of each handle
    logChan,      \* loki.go: the buffered channel of LokiEntry
    logCounter,   \* log_total, per level
    durationHist, \* log_duration_ms: number of samples, per level
    now,          \* the clock read by time.Now / time.Since
    reqCtx,       \* c.Request.Context() of the request being served
    panicking,    \* the value of the panic that is unwinding the request, or NoPanic
    response,     \* the status the request was aborted with, 0 while none
    escaped,      \* a panic left the deferred recovery and reached the caller
    captured,     \* errors handed to Exporter.CaptureError
    calls,        \* per handle: the handle it was forked from, its log calls
    limits,       \* how many handles and calls the model follows
    mw,           \* the Middleware invocation: its phase, span and handle
    exited,       \* the process has ended (os.Exit, or the logger's fatal hook)
    timers,       \* the eotelTimer values returned by Start, and their Stop calls
    worker,       \* loki.go: the goroutine of init, and the entry it holds
    handled,      \* the entries sendLoki was called with, and what it returned
    sent,         \* the entries that were put on logChan, in order
    goroutine,    \* the log calls in progress: the handle, the step it is at
    completed,    \* the log calls that returned, per level
    lookup        \* the last FromContext call: its context, what it returned

vars == <<globalCfg, handles, spans, lines, logChan, logCounter, durationHist,
          now, reqCtx, panicking, response, escaped, captured, calls, limits, mw,
          exited, timers, worker, handled, sent, goroutine, completed, lookup>>

-----------------------------------------------------------------------------
(* Bounds of the model *)

MaxHandles == 2
MaxFields == 2
MaxLogs == 2
MaxClock == 1
MaxEvents == 1
MaxEntries == 3

(* loki.go:16  make(chan LokiEntry, 100) *)
LogChanCap == 100

-----------------------------------------------------------------------------
(* Values *)

NilErr == "<nil>"
NoPanic == "<none>"
Errors == {"boom"}
Levels == {"info", "warn", "debug", "error"}
(* the calls made on a handle: Info("start") and Error("declined"); Warn   *)
(* and Debug differ from them in the level string alone                    *)
LogInputs == {<<"info", "start">>, <<"error", "declined">>}

(* keys a caller passes to WithField; "" is the empty key *)
(* a value of type any: what it holds and the Go type it holds it as *)
IntVal(n) == [kind |-> "int", v |-> n]
StrVal(t) == [kind |-> "string", v |-> t]

(* the calls WithField(key, value) that are made; "" is the empty key *)
FieldInputs == {<<"", IntVal(1)>>, <<"a", IntVal(1)>>, <<"z", IntVal(2)>>}
(* the maps passed to WithFields: a map holds a key once *)
FieldMaps == {{<<"a", IntVal(1)>>, <<"z", IntVal(2)>>}, {<<"", IntVal(1)>>, <<"a", IntVal(1)>>}}

(* the bytes of every key that reaches the attribute accumulator *)
Bytes(k) ==
    CASE k = "" -> <<>>
      [] k = "a" -> <<97>>
      [] k = "z" -> <<122>>
      [] k = "error" -> <<101, 114, 114, 111, 114>>
      [] k = "duration_ms" -> <<100, 117, 114, 97, 116, 105, 111, 110, 95, 109, 115>>
      [] k = "log.level" -> <<108, 111, 103, 46, 108, 101, 118, 101, 108>>
      [] k = "log.message" -> <<108, 111, 103, 46, 109, 101, 115, 115, 97, 103, 101>>
      [] k = "method" -> <<109, 101, 116, 104, 111, 100>>
      [] k = "path" -> <<112, 97, 116, 104>>
      [] k = "ip" -> <<105, 112>>
      [] k = "ua" -> <<117, 97>>

(* Go's < on strings: bytewise lexicographic *)
RECURSIVE BytesLess(_, _)
BytesLess(a, b) ==
    IF b = <<>> THEN FALSE
    ELSE IF a = <<>> THEN TRUE
    ELSE IF Head(a) < Head(b) THEN TRUE
    ELSE IF Head(a) > Head(b) THEN FALSE
    ELSE BytesLess(Tail(a), Tail(b))

StringLess(a, b) == BytesLess(Bytes(a), Bytes(b))

(* fmt.Sprintf("%v", value): a string as it is, a number in decimal *)
Sprintf(value) == IF value.kind = "string" THEN value.v ELSE ToString(value.v)

(* attribute.String / attribute.Float64 *)
AttrString(k, v) == [key |-> k, type |-> "STRING", value |-> v]
AttrFloat64(k, v) == [key |-> k, type |-> "FLOAT64", value |-> v]

(* zap.Any / zap.String / zap.Error *)
ZapField(k, v) == [key |-> k, value |-> v]

(* the less function of endSpan's sort *)
attrLess(x, y) == StringLess(x.key, y.key)

(* sort.SliceStable: equal keys keep their order *)
RECURSIVE InsertStable(_, _)
InsertStable(sorted, x) ==
    IF sorted = <<>> THEN <<x>>
    ELSE IF attrLess(x, sorted[Len(sorted)])
         THEN Append(InsertStable(SubSeq(sorted, 1, Len(sorted) - 1), x),
                     sorted[Len(sorted)])
         ELSE Append(sorted, x)

RECURSIVE SliceStable(_)
SliceStable(s) ==
    IF s = <<>> THEN <<>>
    ELSE InsertStable(SliceStable(SubSeq(s, 1, Len(s) - 1)), s[Len(s)])

-----------------------------------------------------------------------------
(* Contexts: what a context.Context carries that the code reads *)

Background == [span |-> 0, logger |-> 0]

(* trace.SpanFromContext(ctx) / ctx.Value(loggerCtxKey{}) *)
SpanFromContext(ctx) == ctx.span

-----------------------------------------------------------------------------
(* The world the handle's methods act on *)

World ==
    [handles |-> handles, spans |-> spans, lines |-> lines, logChan |-> logChan,
     logCounter |-> logCounter, durationHist |-> durationHist,
     captured |-> captured, panic |-> NoPanic, exit |-> exited]

(* tracer.Start(ctx, name): a new span, child of the span ctx carries, in   *)
(* that span's trace; a span started from a context without a span is the  *)
(* root of a new trace.  owner is the handle the span is started for.      *)
NewTraceID(sp) == 1 + Cardinality({i \in DOMAIN sp : sp[i].parent = 0})

tracerStart(sp, ctx, name, owner) ==
    LET id == Len(sp) + 1
        tid == IF ctx.span # 0 THEN sp[ctx.span].traceID ELSE NewTraceID(sp)
    IN [spans |-> Append(sp, [traceID |-> tid, parent |-> ctx.span, name |-> name,
                              owner |-> owner, flushes |-> <<>>, attrCalls |-> 0,
                              ends |-> 0, status |-> "Unset", errors |-> 0,
                              events |-> 0]),
        ctx |-> [ctx EXCEPT !.span = id],
        span |-> id]

-----------------------------------------------------------------------------
(* The handle: type Eotel and its methods (src/unnamed/part_001) *)

(* the runtime panic of a method call on a nil interface value *)
NilDeref == "nil pointer dereference"

(* func New(ctx, name): no span, no exporter, the global tracer and meter *)
New(w, ctx, name) ==
    [w EXCEPT !.handles = Append(@,
        [ctx |-> ctx, logger |-> "zap.L", tracer |-> TRUE, meter |-> TRUE,
         logCounter |-> TRUE, durationHist |-> TRUE,
         span |-> 0, fields |-> <<>>, attrs |-> <<>>, err |-> NilErr,
         name |-> name, start |-> now, exporter |-> FALSE])]

(* func Noop(name): a nop logger and nothing else: tracer and meter are nil *)
Noop(w, name) ==
    [w EXCEPT !.handles = Append(@,
        [ctx |-> Background, logger |-> "zap.Nop", tracer |-> FALSE, meter |-> FALSE,
         logCounter |-> FALSE, durationHist |-> FALSE,
         span |-> 0, fields |-> <<>>, attrs |-> <<>>, err |-> NilErr,
         name |-> name, start |-> now, exporter |-> FALSE])]

(* a nil *Eotel: as the value of a context key it is a value that is       *)
(* there, unlike 0, the key with no value                                  *)
NilEotel == -1

(* func Inject(ctx, logger) *)
Inject(ctx, l) == [ctx EXCEPT !.logger = l]

(* func FromContext(ctx, name): the injected handle, or a fresh Noop.       *)
(* Gives the world and the handle returned.                                *)
FromContext(w, ctx, name) ==
    IF ctx.logger # 0 /\ ctx.logger # NilEotel
    THEN [w |-> w, l |-> ctx.logger]
    ELSE [w |-> Noop(w, name), l |-> Len(w.handles) + 1]

(* func (l *Eotel) WithField(key, value) *)
WithField(w, l, key, value) ==
    IF key = "" THEN w
    ELSE [w EXCEPT !.handles[l].fields = Append(@, ZapField(key, value)),
                   !.handles[l].attrs = Append(@, AttrString(key, Sprintf(value)))]

(* func (l *Eotel) WithFields(m): range over the map, in the order kvs *)
RECURSIVE WithFields(_, _, _)
WithFields(w, l, kvs) ==
    IF kvs = <<>> THEN w
    ELSE WithFields(WithField(w, l, kvs[1][1], kvs[1][2]), l, Tail(kvs))

(* Exporter.CaptureError, called by WithError when an exporter is set *)
ExporterCaptureError(w, err) == [w EXCEPT !.captured = @ + 1]

(* WithError without its test of err *)
WithErrorUnchecked(w, l, err) ==
    [w EXCEPT !.handles[l].err = err,
              !.handles[l].fields =
                  Append(@, ZapField("error", [kind |-> "error", v |-> err])),
              !.handles[l].attrs = Append(@, AttrString("error", err))]

(* func (l *Eotel) WithError(err) *)
WithError(w, l, err) ==
    IF err # NilErr
    THEN LET w1 == [w EXCEPT !.handles[l].err = err,
                             !.handles[l].fields =
                                 Append(@, ZapField("error", [kind |-> "error", v |-> err])),
                             !.handles[l].attrs = Append(@, AttrString("error", err))]
         IN IF w1.handles[l].exporter THEN ExporterCaptureError(w1, err) ELSE w1
    ELSE w

(* startSpanIfNeeded without its test of l.span *)
startSpanAlways(w, l) ==
    IF ~w.handles[l].tracer
    THEN [w EXCEPT !.panic = NilDeref]
    ELSE LET st == tracerStart(w.spans, w.handles[l].ctx, w.handles[l].name, l)
         IN [w EXCEPT !.spans = st.spans,
                      !.handles[l].ctx = st.ctx,
                      !.handles[l].span = st.span]

(* func (l *Eotel) startSpanIfNeeded(): l.tracer.Start on a nil tracer panics *)
startSpanIfNeeded(w, l) ==
    IF w.handles[l].span = 0
    THEN IF ~w.handles[l].tracer
         THEN [w EXCEPT !.panic = NilDeref]
         ELSE LET st == tracerStart(w.spans, w.handles[l].ctx, w.handles[l].name, l)
              IN [w EXCEPT !.spans = st.spans,
                           !.handles[l].ctx = st.ctx,
                           !.handles[l].span = st.span]
    ELSE w

(* TraceID.String() / SpanID.String(): the id in text *)
IDString(id) == ToString(id)

(* the logger call of log: zap.L() writes the line, zap.NewNop() drops it. *)
(* The line is kept with the number of times the span of l had been ended  *)
(* when it was written.                                                    *)
loggerWrite(w, l, level, msg, fields) ==
    IF w.handles[l].logger = "zap.L"
    THEN [w EXCEPT !.lines.n[level] = @ + 1,
                   !.lines.last = [x \in DOMAIN @ \cup {l} |->
                        IF x = l
                        THEN [level |-> level, msg |-> msg, fields |-> fields,
                              ends |-> IF w.handles[l].span = 0 THEN 0
                                       ELSE w.spans[w.handles[l].span].ends]
                        ELSE @[x]]]
    ELSE w

(* Exporter.Send: hands one entry to the export queue without blocking,    *)
(* dropping it when the queue is full                                      *)
ExporterSend(w, level, msg, traceID, spanID) ==
    IF Len(w.logChan) < LogChanCap
    THEN [w EXCEPT !.logChan = Append(@, [level |-> level, msg |-> msg,
                                          traceID |-> traceID, spanID |-> spanID])]
    ELSE w

(* the export step without its guard *)
logExportUnguarded(w, l, level, msg, traceID, spanID) ==
    ExporterSend(w, level, msg, traceID, spanID)

(* log, lines 152-154: the export step *)
logExport(w, l, level, msg, traceID, spanID) ==
    IF globalCfg.EnableLoki /\ w.handles[l].exporter
    THEN ExporterSend(w, level, msg, traceID, spanID)
    ELSE w

(* endSpan's attributes without the sort *)
endSpanAttrsUnsorted(attrs, msg, level, durationMs) ==
    attrs \o <<AttrString("log.message", msg),
               AttrString("log.level", level),
               AttrFloat64("duration_ms", durationMs)>>

(* the attributes endSpan passes to span.SetAttributes *)
endSpanAttrs(attrs, msg, level, durationMs) ==
    SliceStable(attrs \o <<AttrString("log.message", msg),
                           AttrString("log.level", level),
                           AttrFloat64("duration_ms", durationMs)>>)

(* an add that writes back a value of the counter read before the other    *)
(* calls in progress added theirs                                          *)
logCounterAddStale(w, l, level) ==
    [w EXCEPT !.logCounter[level] = w.durationHist[level] + 1]

(* l.logCounter.Add(ctx, 1, level): one atomic add on the shared counter;   *)
(* a call on a handle whose instrument is nil panics                       *)
logCounterAdd(w, l, level) ==
    IF ~w.handles[l].logCounter
    THEN [w EXCEPT !.panic = NilDeref]
    ELSE [w EXCEPT !.logCounter[level] = @ + 1]

(* l.durationHist.Record(ctx, durationMs, level): one sample *)
durationHistRecord(w, l, level) ==
    IF ~w.handles[l].durationHist
    THEN [w EXCEPT !.panic = NilDeref]
    ELSE [w EXCEPT !.durationHist[level] = @ + 1]

(* endSpan, lines 216-235: the attributes, the status, the end of the span *)
endSpanFlush(w, l, msg, level) ==
    LET h == w.handles[l]
        durationMs == (now - h.start) * 1000
        attrs == endSpanAttrs(h.attrs, msg, level, durationMs)
        w1 == [w EXCEPT !.handles[l].attrs = attrs]
    IN IF h.span # 0
       THEN [w1 EXCEPT !.spans[h.span].flushes = Append(@, attrs),
                       !.spans[h.span].status =
                           IF h.err # NilErr THEN "Error" ELSE @,
                       !.spans[h.span].errors =
                           IF h.err # NilErr THEN @ + 1 ELSE @,
                       !.spans[h.span].ends = @ + 1]
       ELSE w1

(* func (l *Eotel) endSpan(msg, level) *)
endSpan(w, l, msg, level) ==
    LET w2 == endSpanFlush(w, l, msg, level)
    IN IF w.handles[l].meter
       THEN LET w3 == logCounterAdd(w2, l, level)
            IN IF w3.panic # NoPanic THEN w3 ELSE durationHistRecord(w3, l, level)
       ELSE w2

(* What l.logger.Fatal does once the line is written: zap runs the         *)
(* logger's fatal hook, which by default ends the process (os.Exit(1));    *)
(* a logger built with another hook may return to its caller.              *)
FatalHooks == {"exit", "return"}

(* the five fields of log with the level put first *)
logFieldsLevelFirst(w, l, level) ==
    LET h == w.handles[l]
        traceID == IF h.span # 0 THEN w.spans[h.span].traceID ELSE 0
    IN <<ZapField("level", StrVal(level)),
         ZapField("trace_id", StrVal(IDString(traceID))),
         ZapField("span_id", StrVal(IDString(h.span))),
         ZapField("job", StrVal(globalCfg.JobName)),
         ZapField("service", StrVal(globalCfg.ServiceName))>>

(* the five fields log puts before the accumulated ones *)
logFields(w, l, level) ==
    LET h == w.handles[l]
        traceID == IF h.span # 0 THEN w.spans[h.span].traceID ELSE 0
    IN <<ZapField("trace_id", StrVal(IDString(traceID))),
         ZapField("span_id", StrVal(IDString(h.span))),
         ZapField("job", StrVal(globalCfg.JobName)),
         ZapField("service", StrVal(globalCfg.ServiceName)),
         ZapField("level", StrVal(level))>>

(* log, lines 116-154: the span, the line, the export *)
logLine(w, l, level, msg, hook) ==
    LET w1 == startSpanIfNeeded(w, l)
    IN IF w1.panic # NoPanic THEN w1
       ELSE LET h == w1.handles[l]
                traceID == IF h.span # 0 THEN w1.spans[h.span].traceID ELSE 0
                spanID == h.span
                fields == logFields(w1, l, level) \o h.fields
                w2 == loggerWrite(w1, l, level, msg, fields)
            IN IF level = "fatal" /\ hook = "exit"
               THEN [w2 EXCEPT !.exit = TRUE]
               ELSE logExport(w2, l, level, msg, IDString(traceID), IDString(spanID))

(* func (l *Eotel) log(level, msg), with a logger whose fatal hook is hook: *)
(* a Fatal line on a logger that ends the process is the last step of log  *)
logSink(w, l, level, msg, hook) ==
    LET w3 == logLine(w, l, level, msg, hook)
    IN IF w3.panic # NoPanic \/ w3.exit THEN w3
       ELSE endSpan(w3, l, msg, level)

(* func (l *Eotel) log(level, msg), at the levels of Info, Error, Debug and *)
(* Warn: the fatal hook plays no part                                      *)
log(w, l, level, msg) == logSink(w, l, level, msg, "exit")

(* func (l *Eotel) Fatal(msg) *)
Fatal(w, l, msg, hook) ==
    LET w1 == logSink(w, l, "fatal", msg, hook)
        span == w1.handles[l].span
    IN IF w1.panic # NoPanic \/ w1.exit THEN w1
       ELSE LET w2 == IF span # 0 THEN [w1 EXCEPT !.spans[span].ends = @ + 1] ELSE w1
            IN [w2 EXCEPT !.exit = TRUE]

(* func (l *Eotel) SpanEvent(name, attrs...) *)
SpanEvent(w, l) ==
    IF w.handles[l].span # 0
    THEN [w EXCEPT !.spans[w.handles[l].span].events = @ + 1]
    ELSE w

(* func (l *Eotel) SetSpanAttr(key, value) *)
SetSpanAttr(w, l) ==
    IF w.handles[l].span # 0
    THEN [w EXCEPT !.spans[w.handles[l].span].attrCalls = @ + 1]
    ELSE w

(* func (l *Eotel) SetSpanError(err) *)
SetSpanError(w, l, err) ==
    IF err # NilErr /\ w.handles[l].span # 0
    THEN [w EXCEPT !.spans[w.handles[l].span].errors = @ + 1]
    ELSE w

(* func (l *Eotel) Start(name): the timer, not yet stopped *)
Start(l, name) == [name |-> name, logger |-> l, start |-> now, stops |-> 0]

(* func (t *eotelTimer) Stop(): the duration as an event on the span of    *)
(* the timer's handle                                                      *)
Stop(w, t) == SpanEvent(w, t.logger)

(* func (l *Eotel) Child(name): a span started at once from l.ctx; the     *)
(* global tracer when l has none.  The child is handle Len(handles) + 1.   *)
Child(w, l, name) ==
    LET p == w.handles[l]
        st == tracerStart(w.spans, p.ctx, name, Len(w.handles) + 1)
    IN [w EXCEPT !.spans = st.spans,
                 !.handles = Append(@,
                    [ctx |-> st.ctx, logger |-> p.logger, tracer |-> TRUE,
                     meter |-> p.meter, logCounter |-> p.logCounter,
                     durationHist |-> p.durationHist,
                     span |-> st.span, fields |-> <<>>,
                     attrs |-> <<>>, err |-> NilErr, name |-> name, start |-> now,
                     exporter |-> p.exporter])]

(* func Safe(l): l itself unless nil *)
Safe(w, l) ==
    IF l = 0 THEN [w |-> Noop(w, "safe"), l |-> Len(w.handles) + 1]
    ELSE [w |-> w, l |-> l]

(* the error fmt.Errorf("panic: %v", rec) builds *)
PanicError(rec) == "panic: " \o rec

(* span.RecordError(err); span.SetStatus(codes.Error, ...) on the span of   *)
(* the request context; the span of a context without one does nothing     *)
recordOnSpan(w, span) ==
    IF span # 0
    THEN [w EXCEPT !.spans[span].errors = @ + 1, !.spans[span].status = "Error"]
    ELSE w

(* func RecoverPanic(c), the function it returns, run with rec recovered:  *)
(* the world it leaves and the status it aborts the request with (0 when   *)
(* it does not get that far because it panics itself)                      *)
RecoverPanic(w, ctx, rec) ==
    LET err == PanicError(rec)
        fc == FromContext(w, ctx, "panic")
        sf == Safe(fc.w, fc.l)
        w1 == WithError(sf.w, sf.l, err)
        w2 == log(w1, sf.l, "error", "unhandled panic")
    IN IF w2.panic # NoPanic
       THEN [w |-> w2, status |-> 0, l |-> sf.l]
       ELSE [w |-> recordOnSpan(w2, SpanFromContext(ctx)), status |-> 500, l |-> sf.l]

-----------------------------------------------------------------------------
(* Middleware (src/sentry.go) and the handle methods it calls (src/eotel.go) *)

(* eotel.go, func (l *Eotel) WithField: appends whatever the key *)
WithFieldMethod(w, l, key, value) ==
    [w EXCEPT !.handles[l].fields = Append(@, ZapField(key, value)),
              !.handles[l].attrs = Append(@, AttrString(key, Sprintf(value)))]

(* eotel.go, func (l *Eotel) FromContext(ctx, name): the value of the key   *)
(* when it is a *Eotel, nil or not, or a handle from New                   *)
FromContextMethod(w, ctx, name) ==
    IF ctx.logger # 0
    THEN [w |-> w, l |-> ctx.logger]
    ELSE [w |-> New(w, ctx, name), l |-> Len(w.handles) + 1]

(* eotel.go, func (l *Eotel) WithFields(m) *)
RECURSIVE WithFieldsMethod(_, _, _)
WithFieldsMethod(w, l, kvs) ==
    IF kvs = <<>> THEN w
    ELSE WithFieldsMethod(WithFieldMethod(w, l, kvs[1][1], kvs[1][2]), l, Tail(kvs))

(* eotel.go, func (l *Eotel) WithError(err): l.exporter.CaptureError is     *)
(* called whatever l.exporter is, once the error is on the handle          *)
WithErrorMethod(w, l, err) ==
    IF err # NilErr
    THEN LET w1 == [w EXCEPT !.handles[l].err = err,
                             !.handles[l].fields =
                                 Append(@, ZapField("error", [kind |-> "error", v |-> err])),
                             !.handles[l].attrs = Append(@, AttrString("error", err))]
         IN IF w1.handles[l].exporter THEN ExporterCaptureError(w1, err)
            ELSE [w1 EXCEPT !.panic = NilDeref]
    ELSE w

(* eotel.go, func (l *Eotel) endSpan(msg, level): the error is recorded,    *)
(* no status is set; the two instruments are called whatever they are      *)
endSpanMethod(w, l, msg, level) ==
    LET h == w.handles[l]
        durationMs == (now - h.start) * 1000
        attrs == endSpanAttrs(h.attrs, msg, level, durationMs)
        w1 == [w EXCEPT !.handles[l].attrs = attrs]
        w2 == IF h.span # 0
              THEN [w1 EXCEPT !.spans[h.span].flushes = Append(@, attrs),
                              !.spans[h.span].errors =
                                  IF h.err # NilErr THEN @ + 1 ELSE @,
                              !.spans[h.span].ends = @ + 1]
              ELSE w1
        w3 == logCounterAdd(w2, l, level)
    IN IF w3.panic # NoPanic THEN w3 ELSE durationHistRecord(w3, l, level)

(* eotel.go, func (l *Eotel) log(level, msg), at the levels of Info, Error, *)
(* Debug and Warn: l.exporter.Send is called whatever l.exporter is        *)
logMethod(w, l, level, msg) ==
    LET w1 == startSpanIfNeeded(w, l)
    IN IF w1.panic # NoPanic THEN w1
       ELSE LET h == w1.handles[l]
                traceID == w1.spans[h.span].traceID
                fields == logFields(w1, l, level) \o h.fields
                w2 == loggerWrite(w1, l, level, msg, fields)
                w3 == IF globalCfg.EnableLoki
                      THEN IF h.exporter
                           THEN ExporterSend(w2, level, msg, IDString(traceID),
                                             IDString(h.span))
                           ELSE [w2 EXCEPT !.panic = NilDeref]
                      ELSE w2
            IN IF w3.panic # NoPanic THEN w3 ELSE endSpanMethod(w3, l, msg, level)

(* eotel.go, func (l *Eotel) Child(name): the child is given neither the   *)
(* two instruments nor a name                                              *)
ChildMethod(w, l, name) ==
    LET p == w.handles[l]
        st == tracerStart(w.spans, p.ctx, name, Len(w.handles) + 1)
    IN [w EXCEPT !.spans = st.spans,
                 !.handles = Append(@,
                    [ctx |-> st.ctx, logger |-> p.logger, tracer |-> p.tracer,
                     meter |-> p.meter, logCounter |-> FALSE,
                     durationHist |-> FALSE,
                     span |-> st.span, fields |-> <<>>,
                     attrs |-> <<>>, err |-> NilErr, name |-> "", start |-> now,
                     exporter |-> p.exporter])]

(* eotel.go, func (l *Eotel) RecoverPanic(c): the call builds and returns   *)
(* the function that would recover; nothing of that function runs         *)
RecoverPanicMethod(w, l, ctx) == w

(* Middleware, up to c.Next(): the request span, the handle with the four  *)
(* request fields, the handle injected in the request context              *)
MiddlewareEnter(w, ctx, name, req) ==
    LET st == tracerStart(w.spans, ctx, req.method \o " " \o req.path, 0)
        w1 == New([w EXCEPT !.spans = st.spans], st.ctx, name)
        l == Len(w1.handles)
        w2 == WithFieldMethod(w1, l, "method", StrVal(req.method))
        w3 == WithFieldMethod(w2, l, "path", StrVal(req.path))
        w4 == WithFieldMethod(w3, l, "ip", StrVal(req.ip))
        w5 == WithFieldMethod(w4, l, "ua", StrVal(req.ua))
    IN [w |-> w5, span |-> st.span, logger |-> l, ctx |-> Inject(st.ctx, l)]

(* Middleware, its deferred calls, last deferred first:                    *)
(* logger.RecoverPanic(c), then span.End()                                 *)
MiddlewareExit(w, span, logger, ctx) ==
    LET w1 == RecoverPanicMethod(w, logger, ctx)
    IN [w1 EXCEPT !.spans[span].ends = @ + 1]

-----------------------------------------------------------------------------
(* Initial state: the package after InitEOTEL set globalCfg; no handle yet *)

AllLevels == Levels \cup {"fatal"}

InitWith(lim) ==
    /\ limits = lim
    /\ globalCfg \in [EnableLoki : BOOLEAN,
                      JobName : {"job"}, ServiceName : {"svc"}]
    /\ handles = <<>>
    /\ spans = <<>>
    /\ lines = [n |-> [lv \in AllLevels |-> 0], last |-> <<>>]
    /\ logChan = <<>>
    /\ logCounter = [lv \in AllLevels |-> 0]
    /\ durationHist = [lv \in AllLevels |-> 0]
    /\ now = 0
    /\ reqCtx = Background
    /\ panicking = NoPanic
    /\ response = 0
    /\ escaped = FALSE
    /\ captured = 0
    /\ calls = <<>>
    /\ mw = [phase |-> "idle", span |-> 0, logger |-> 0]
    /\ exited = FALSE
    /\ timers = <<>>
    /\ worker = [pc |-> "range", entry |-> <<>>]
    /\ handled = <<>>
    /\ sent = <<>>
    /\ goroutine = {}
    /\ completed = [lv \in AllLevels |-> 0]
    /\ lookup = [made |-> FALSE, ctx |-> Background, l |-> 0, same |-> TRUE]

(* What the model follows: one handle through many calls, a tree of        *)
(* handles that only log, or a tree of handles with one call of each kind. *)
Profiles ==
    {[handles |-> 1, fields |-> MaxFields, logs |-> MaxLogs, events |-> MaxEvents],
     [handles |-> MaxHandles, fields |-> 0, logs |-> MaxLogs, events |-> 0],
     [handles |-> MaxHandles, fields |-> 1, logs |-> 1, events |-> 1]}

Init == \E lim \in Profiles : InitWith(lim)

(* a request: handles, the handle injected in its context, a panic *)
InitRequest ==
    InitWith([handles |-> MaxHandles, fields |-> 1, logs |-> 1, events |-> 0])

-----------------------------------------------------------------------------
(* Actions: the calls a request's call chain makes *)

(* the call chain is running: no panic is unwinding it and it was not aborted *)
Running ==
    /\ panicking = NoPanic
    /\ ~escaped
    /\ ~exited
    /\ response = 0
    /\ mw.phase = "idle"

Handle == 1..Len(handles)

RECURSIVE SumOver(_, _)
SumOver(f, n) == IF n = 0 THEN 0 ELSE f[n] + SumOver(f, n - 1)

(* how much of each budget of the model is used *)
FieldsUsed ==
    SumOver([h \in Handle |-> calls[h].keyed + calls[h].unkeyed + calls[h].errs
                                  + calls[h].nilErrs],
            Len(handles))
LogsUsed == SumOver([h \in Handle |-> calls[h].logs], Len(handles))
EventsUsed == SumOver([h \in Handle |-> calls[h].spanCalls], Len(handles))

(* the contexts a caller has at hand *)
Contexts == {Background, reqCtx} \cup {handles[h].ctx : h \in Handle}

(* calls, extended to the handles of w: the new ones forked from parent.    *)
(* Per handle: the log calls, the WithField calls with and without a key,  *)
(* the WithError calls with an error, the span calls (SpanEvent,           *)
(* SetSpanAttr, SetSpanError) and the Fatal calls made on it (WithError     *)
(* calls with nil are counted apart); whether an                           *)
(* error had been given, and which fields, when it last logged.            *)
Track(w, parent) ==
    calls \o [i \in 1..(Len(w.handles) - Len(calls)) |->
                [parent |-> parent, logs |-> 0, keyed |-> 0, unkeyed |-> 0,
                 errs |-> 0, nilErrs |-> 0, errAtLog |-> FALSE, fieldsAtLog |-> <<>>,
                 spanCalls |-> 0, fatal |-> 0]]

NoteField(cs, l, key) ==
    IF key = "" THEN [cs EXCEPT ![l].unkeyed = @ + 1]
    ELSE [cs EXCEPT ![l].keyed = @ + 1]

RECURSIVE NoteFields(_, _, _)
NoteFields(cs, l, kvs) ==
    IF kvs = <<>> THEN cs
    ELSE NoteFields(NoteField(cs, l, kvs[1][1]), l, Tail(kvs))

NoteError(cs, l, err) ==
    IF err = NilErr THEN [cs EXCEPT ![l].nilErrs = @ + 1]
    ELSE [cs EXCEPT ![l].errs = @ + 1]

(* a log call on l, made when l had accumulated the fields before *)
NoteLog(cs, l, before) ==
    [cs EXCEPT ![l].logs = @ + 1,
               ![l].errAtLog = (cs[l].errs > 0),
               ![l].fieldsAtLog = before]

NoteSpanCall(cs, l) == [cs EXCEPT ![l].spanCalls = @ + 1]

(* the world w becomes the state *)
CommitWorld(w) ==
    /\ handles' = w.handles
    /\ exited' = w.exit
    /\ spans' = w.spans
    /\ lines' = w.lines
    /\ logChan' = w.logChan
    /\ logCounter' = w.logCounter
    /\ durationHist' = w.durationHist
    /\ captured' = w.captured

(* ... and a panic raised in the call starts unwinding the call chain *)
Commit(w) ==
    /\ CommitWorld(w)
    /\ panicking' = w.panic

NewCall ==
    /\ Running
    /\ Len(handles) < limits.handles
    /\ \E ctx \in Contexts, name \in {"checkout"} :
         LET w == New(World, ctx, name)
         IN Commit(w) /\ calls' = Track(w, 0)
    /\ UNCHANGED <<globalCfg, now, reqCtx, response, escaped, limits, mw, timers, worker,
                   handled, sent,
                   goroutine, completed, lookup>>

FromContextCall ==
    /\ Running
    /\ Len(handles) < limits.handles
    /\ LET fc == FromContext(World, reqCtx, "fallback")
       IN Commit(fc.w) /\ calls' = Track(fc.w, 0)
    /\ UNCHANGED <<globalCfg, now, reqCtx, response, escaped, limits, mw, timers, worker,
                   handled, sent,
                   goroutine, completed, lookup>>

InjectCall ==
    /\ Running
    /\ \E l \in Handle :
         \E ctx \in {reqCtx, handles[l].ctx} : reqCtx' = Inject(ctx, l)
    /\ UNCHANGED <<globalCfg, handles, spans, lines, logChan, logCounter,
                   durationHist, now, panicking, response, escaped, captured,
                   calls, limits, mw, exited, timers, worker,
                   handled, sent,
                   goroutine, completed, lookup>>

ChildCall ==
    /\ Running
    /\ Len(handles) < limits.handles
    /\ \E l \in Handle, name \in {"payment"} :
         LET w == Child(World, l, name)
         IN Commit(w) /\ calls' = Track(w, l)
    /\ UNCHANGED <<globalCfg, now, reqCtx, response, escaped, limits, mw, timers, worker,
                   handled, sent,
                   goroutine, completed, lookup>>

WithFieldCall ==
    /\ Running
    /\ \E l \in Handle, kv \in FieldInputs :
         /\ FieldsUsed < limits.fields
         /\ Commit(WithField(World, l, kv[1], kv[2]))
         /\ calls' = NoteField(calls, l, kv[1])
    /\ UNCHANGED <<globalCfg, now, reqCtx, response, escaped, limits, mw, timers, worker,
                   handled, sent,
                   goroutine, completed, lookup>>

WithFieldsCall ==
    /\ Running
    /\ \E l \in Handle, m \in FieldMaps :
         /\ FieldsUsed + Cardinality(m) <= limits.fields
         /\ \E kvs \in [1..Cardinality(m) -> m] :
              /\ \A i, j \in DOMAIN kvs : i # j => kvs[i] # kvs[j]
              /\ Commit(WithFields(World, l, kvs))
              /\ calls' = NoteFields(calls, l, kvs)
    /\ UNCHANGED <<globalCfg, now, reqCtx, response, escaped, limits, mw, timers, worker,
                   handled, sent,
                   goroutine, completed, lookup>>

WithErrorCall ==
    /\ Running
    /\ \E l \in Handle, err \in Errors \cup {NilErr} :
         /\ FieldsUsed < limits.fields
         /\ Commit(WithError(World, l, err))
         /\ calls' = NoteError(calls, l, err)
    /\ UNCHANGED <<globalCfg, now, reqCtx, response, escaped, limits, mw, timers, worker,
                   handled, sent,
                   goroutine, completed, lookup>>

(* Info / Warn / Debug / Error *)
LogCall ==
    /\ Running
    /\ \E l \in Handle, in \in LogInputs :
         /\ LogsUsed < limits.logs
         /\ Commit(log(World, l, in[1], in[2]))
         /\ calls' = NoteLog(calls, l, handles[l].fields)
    /\ UNCHANGED <<globalCfg, now, reqCtx, response, escaped, limits, mw, timers, worker,
                   handled, sent,
                   goroutine, completed, lookup>>

SpanEventCall ==
    /\ Running
    /\ \E l \in Handle :
         /\ EventsUsed < limits.events
         /\ Commit(SpanEvent(World, l))
         /\ calls' = NoteSpanCall(calls, l)
    /\ UNCHANGED <<globalCfg, now, reqCtx, response, escaped, limits, mw, timers, worker,
                   handled, sent,
                   goroutine, completed, lookup>>

SetSpanAttrCall ==
    /\ Running
    /\ \E l \in Handle :
         /\ EventsUsed < limits.events
         /\ Commit(SetSpanAttr(World, l))
         /\ calls' = NoteSpanCall(calls, l)
    /\ UNCHANGED <<globalCfg, now, reqCtx, response, escaped, limits, mw, timers, worker,
                   handled, sent,
                   goroutine, completed, lookup>>

FatalCall ==
    /\ Running
    /\ \E l \in Handle, hook \in FatalHooks :
         /\ LogsUsed < limits.logs
         /\ Commit(Fatal(World, l, "down", hook))
         /\ calls' = [NoteLog(calls, l, handles[l].fields) EXCEPT ![l].fatal = @ + 1]
    /\ UNCHANGED <<globalCfg, now, reqCtx, response, escaped, limits, mw, timers,
                   worker, handled, sent,
                   goroutine, completed, lookup>>

(* the code of the request panics on its own account *)
HandlerPanic ==
    /\ Running
    /\ panicking' = "handler failed"
    /\ UNCHANGED <<globalCfg, handles, spans, lines, logChan, logCounter,
                   durationHist, now, reqCtx, response, escaped, captured, calls,
                   limits, mw, exited, timers, worker,
                   handled, sent,
                   goroutine, completed, lookup>>

(* defer RecoverPanic(c)(): the deferred function runs while a panic unwinds *)
RecoverPanicRun ==
    /\ panicking # NoPanic
    /\ ~escaped
    /\ mw.phase = "idle"
    /\ LET r == RecoverPanic(World, reqCtx, panicking)
       IN /\ Commit(r.w)
          /\ calls' = NoteLog(NoteError(Track(r.w, 0), r.l, PanicError(panicking)),
                               r.l, r.w.handles[r.l].fields)
          /\ response' = r.status
          /\ escaped' = (r.w.panic # NoPanic)
    /\ UNCHANGED <<globalCfg, now, reqCtx, limits, mw, timers, worker,
                   handled, sent,
                   goroutine, completed, lookup>>

Tick ==
    /\ Running
    /\ now < MaxClock
    /\ now' = now + 1
    /\ UNCHANGED <<globalCfg, handles, spans, lines, logChan, logCounter,
                   durationHist, reqCtx, panicking, response, escaped, captured,
                   calls, limits, mw, exited, timers, worker,
                   handled, sent,
                   goroutine, completed, lookup>>

(* the calls made on handles *)
Next ==
    \/ NewCall
    \/ ChildCall
    \/ WithFieldCall
    \/ WithFieldsCall
    \/ WithErrorCall
    \/ LogCall
    \/ SpanEventCall
    \/ SetSpanAttrCall

Spec == Init /\ [][Next]_vars

(* the calls made while a request is served, and its recovery from a panic *)
NextRequest ==
    \/ NewCall
    \/ FromContextCall
    \/ InjectCall
    \/ ChildCall
    \/ WithFieldCall
    \/ WithErrorCall
    \/ LogCall
    \/ HandlerPanic
    \/ RecoverPanicRun
    \/ Tick

SpecRequest == InitRequest /\ [][NextRequest]_vars

-----------------------------------------------------------------------------
(* A request served through Middleware *)

Requests ==
    [method : {"GET", "POST"}, path : {"/a", "/b"}, ip : {"10.0.0.1", "10.0.0.2"},
     ua : {"curl", "go"}]

MwEnter ==
    /\ Running
    /\ handles = <<>>
    /\ \E req \in Requests :
         LET r == MiddlewareEnter(World, reqCtx, "http", req)
         IN /\ Commit(r.w)
            /\ calls' = [Track(r.w, 0) EXCEPT ![r.logger].keyed = 4]
            /\ reqCtx' = r.ctx
            /\ mw' = [phase |-> "next", span |-> r.span, logger |-> r.logger]
    /\ UNCHANGED <<globalCfg, now, response, escaped, limits, timers, worker,
                   handled, sent,
                   goroutine, completed, lookup>>

(* c.Next(): the handlers after the middleware return *)
MwNextReturns ==
    /\ mw.phase = "next"
    /\ mw' = [mw EXCEPT !.phase = "unwind"]
    /\ UNCHANGED <<globalCfg, handles, spans, lines, logChan, logCounter,
                   durationHist, now, reqCtx, panicking, response, escaped,
                   captured, calls, limits, exited, timers, worker,
                   handled, sent,
                   goroutine, completed, lookup>>

(* c.Next(): a handler after the middleware panics *)
MwNextPanics ==
    /\ mw.phase = "next"
    /\ panicking' = "handler failed"
    /\ mw' = [mw EXCEPT !.phase = "unwind"]
    /\ UNCHANGED <<globalCfg, handles, spans, lines, logChan, logCounter,
                   durationHist, now, reqCtx, response, escaped, captured, calls,
                   limits, exited, timers, worker,
                   handled, sent,
                   goroutine, completed, lookup>>

(* the middleware function is left: its deferred calls run, and a panic     *)
(* that none of them recovered goes on to the caller of the middleware     *)
MwExit ==
    /\ mw.phase = "unwind"
    /\ CommitWorld(MiddlewareExit(World, mw.span, mw.logger, reqCtx))
    /\ escaped' = (panicking # NoPanic)
    /\ mw' = [mw EXCEPT !.phase = "done"]
    /\ UNCHANGED <<globalCfg, now, reqCtx, panicking, response, calls, limits, timers, worker,
                   handled, sent,
                   goroutine, completed, lookup>>

NextMw ==
    \/ MwEnter
    \/ MwNextReturns
    \/ MwNextPanics
    \/ MwExit
    \/ Tick

SpecMw == InitRequest /\ [][NextMw]_vars

-----------------------------------------------------------------------------
(* The calls made on the handle of src/eotel.go, the one Middleware hands  *)
(* to the handlers of a request                                            *)

ChildMethodCall ==
    /\ Running
    /\ Len(handles) < limits.handles
    /\ \E l \in Handle, name \in {"payment"} :
         LET w == ChildMethod(World, l, name)
         IN Commit(w) /\ calls' = Track(w, l)
    /\ UNCHANGED <<globalCfg, now, reqCtx, response, escaped, limits, mw, timers,
                   worker, handled, sent,
                   goroutine, completed, lookup>>

WithFieldMethodCall ==
    /\ Running
    /\ \E l \in Handle, kv \in FieldInputs :
         /\ FieldsUsed < limits.fields
         /\ Commit(WithFieldMethod(World, l, kv[1], kv[2]))
         /\ calls' = NoteField(calls, l, kv[1])
    /\ UNCHANGED <<globalCfg, now, reqCtx, response, escaped, limits, mw, timers,
                   worker, handled, sent,
                   goroutine, completed, lookup>>

WithErrorMethodCall ==
    /\ Running
    /\ \E l \in Handle, err \in Errors \cup {NilErr} :
         /\ FieldsUsed < limits.fields
         /\ Commit(WithErrorMethod(World, l, err))
         /\ calls' = NoteError(calls, l, err)
    /\ UNCHANGED <<globalCfg, now, reqCtx, response, escaped, limits, mw, timers,
                   worker, handled, sent,
                   goroutine, completed, lookup>>

LogMethodCall ==
    /\ Running
    /\ \E l \in Handle, in \in LogInputs :
         /\ LogsUsed < limits.logs
         /\ Commit(logMethod(World, l, in[1], in[2]))
         /\ calls' = NoteLog(calls, l, handles[l].fields)
    /\ UNCHANGED <<globalCfg, now, reqCtx, response, escaped, limits, mw, timers,
                   worker, handled, sent,
                   goroutine, completed, lookup>>

(* the caller of a method that panicked recovers in a deferred function of  *)
(* its own and goes on                                                     *)
CallerRecovers ==
    /\ panicking = NilDeref
    /\ ~escaped /\ ~exited /\ response = 0 /\ mw.phase = "idle"
    /\ panicking' = NoPanic
    /\ UNCHANGED <<globalCfg, handles, spans, lines, logChan, logCounter,
                   durationHist, now, reqCtx, response, escaped, captured, calls,
                   limits, mw, exited, timers, worker, handled, sent,
                   goroutine, completed, lookup>>

InitV1 ==
    InitWith([handles |-> MaxHandles, fields |-> MaxFields, logs |-> MaxLogs,
              events |-> 0])

NextV1 ==
    \/ NewCall
    \/ ChildMethodCall
    \/ WithFieldMethodCall
    \/ WithErrorMethodCall
    \/ LogMethodCall
    \/ CallerRecovers

SpecV1 == InitV1 /\ [][NextV1]_vars

-----------------------------------------------------------------------------
(* The span calls and the timers of a handle *)

SetSpanErrorCall ==
    /\ Running
    /\ \E l \in Handle, err \in Errors :
         /\ EventsUsed < limits.events
         /\ Commit(SetSpanError(World, l, err))
         /\ calls' = NoteSpanCall(calls, l)
    /\ UNCHANGED <<globalCfg, now, reqCtx, response, escaped, limits, mw, timers,
                   worker, handled, sent,
                   goroutine, completed, lookup>>

InitSpan ==
    InitWith([handles |-> MaxHandles, fields |-> 0, logs |-> MaxLogs,
              events |-> MaxEvents + 1])

NextSpan ==
    \/ NewCall
    \/ ChildCall
    \/ LogCall
    \/ SpanEventCall
    \/ SetSpanAttrCall
    \/ SetSpanErrorCall

SpecSpan == InitSpan /\ [][NextSpan]_vars

(* the Stop calls made so far, on all timers *)
StopsMade == SumOver([t \in DOMAIN timers |-> timers[t].stops], Len(timers))

StartCall ==
    /\ Running
    /\ Len(timers) < limits.events
    /\ \E l \in Handle, name \in {"db"} : timers' = Append(timers, Start(l, name))
    /\ UNCHANGED <<globalCfg, handles, spans, lines, logChan, logCounter,
                   durationHist, now, reqCtx, panicking, response, escaped,
                   captured, calls, limits, mw, exited, worker, handled, sent,
                   goroutine, completed, lookup>>

StopCall ==
    /\ Running
    /\ StopsMade < limits.events
    /\ \E t \in DOMAIN timers :
         /\ Commit(Stop(World, timers[t]))
         /\ timers' = [timers EXCEPT ![t].stops = @ + 1]
    /\ UNCHANGED <<globalCfg, now, reqCtx, response, escaped, calls, limits, mw,
                   worker, handled, sent,
                   goroutine, completed, lookup>>

InitTimer ==
    InitWith([handles |-> MaxHandles, fields |-> 0, logs |-> 1,
              events |-> MaxEvents + 1])

NextTimer ==
    \/ NewCall
    \/ ChildCall
    \/ LogCall
    \/ StartCall
    \/ StopCall
    \/ Tick

SpecTimer == InitTimer /\ [][NextTimer]_vars

-----------------------------------------------------------------------------
(* The export worker (src/loki.go) *)

(* the entries put on logChan *)
LokiEntries ==
    {[Labels |-> [level |-> "info"], Message |-> "start"],
     [Labels |-> [level |-> "error"], Message |-> "declined"]}

(* what http.Post comes back with: an error, or a response and its status *)
PostOutcomes == {"error", "204", "500"}

(* func sendLoki(entry): whether it posted, and the error it returns *)
sendLoki(entry, post) ==
    IF ~globalCfg.EnableLoki THEN [posted |-> FALSE, err |-> NilErr]
    ELSE IF post = "error" THEN [posted |-> TRUE, err |-> "post failed"]
    ELSE IF post = "500" THEN [posted |-> TRUE, err |-> "loki response: 500"]
    ELSE [posted |-> TRUE, err |-> NilErr]

(* a worker that leaves its loop when sendLoki returns an error *)
workerStopsOnError(result) ==
    IF result.err # NilErr THEN [pc |-> "stopped", entry |-> <<>>]
    ELSE [pc |-> "range", entry |-> <<>>]

(* init, the body of the loop after sendLoki returned: the error is         *)
(* dropped and the loop goes on to the next receive                        *)
workerLoop(result) == [pc |-> "range", entry |-> <<>>]

(* logChan <- entry: an entry is put on the channel, which blocks when the *)
(* channel is full                                                         *)
Enqueue ==
    /\ Len(sent) < MaxEntries
    /\ Len(logChan) < LogChanCap
    /\ \E entry \in LokiEntries :
         /\ logChan' = Append(logChan, entry)
         /\ sent' = Append(sent, entry)
    /\ UNCHANGED <<globalCfg, handles, spans, lines, logCounter, durationHist, now,
                   reqCtx, panicking, response, escaped, captured, calls, limits,
                   mw, exited, timers, worker, handled,
                   goroutine, completed, lookup>>

(* for entry := range logChan: the worker receives the oldest entry *)
WorkerReceive ==
    /\ worker.pc = "range"
    /\ logChan # <<>>
    /\ worker' = [pc |-> "sendLoki", entry |-> Head(logChan)]
    /\ logChan' = Tail(logChan)
    /\ UNCHANGED <<globalCfg, handles, spans, lines, logCounter, durationHist, now,
                   reqCtx, panicking, response, escaped, captured, calls, limits,
                   mw, exited, timers, handled, sent,
                   goroutine, completed, lookup>>

(* _ = sendLoki(entry) *)
WorkerSendLoki ==
    /\ worker.pc = "sendLoki"
    /\ \E post \in PostOutcomes :
         LET result == sendLoki(worker.entry, post)
         IN /\ handled' = Append(handled, [entry |-> worker.entry, result |-> result])
            /\ worker' = workerLoop(result)
    /\ UNCHANGED <<globalCfg, handles, spans, lines, logChan, logCounter,
                   durationHist, now, reqCtx, panicking, response, escaped,
                   captured, calls, limits, mw, exited, timers, sent,
                   goroutine, completed, lookup>>

InitWorker == InitWith([handles |-> 0, fields |-> 0, logs |-> 0, events |-> 0])

NextWorker ==
    \/ Enqueue
    \/ WorkerReceive
    \/ WorkerSendLoki

(* the worker is a goroutine of its own: it is scheduled whenever it can    *)
(* take a step, and http.Post returns                                      *)
SpecWorker ==
    /\ InitWorker
    /\ [][NextWorker]_vars
    /\ WF_vars(WorkerReceive)
    /\ WF_vars(WorkerSendLoki)

-----------------------------------------------------------------------------
(* Log calls made concurrently, each by a goroutine on a handle of its own. *)
(* What the calls share are the logger, the tracer and the two instruments, *)
(* all safe for concurrent use: a call is followed here up to its          *)
(* l.span.End(), then through its Add and its Record.                      *)

InProgress(h) == \E g \in goroutine : g.h = h

(* log up to the end of the span; the call goes on to the instruments *)
LogBegin ==
    /\ Running
    /\ LogsUsed + Cardinality(goroutine) < limits.logs
    /\ \E l \in Handle, in \in LogInputs :
         /\ ~InProgress(l)
         /\ LET w3 == logLine(World, l, in[1], in[2], "exit")
            IN Commit(endSpanFlush(w3, l, in[2], in[1]))
         /\ goroutine' = goroutine \cup
                {[h |-> l, pc |-> "Add", level |-> in[1], before |-> handles[l].fields]}
    /\ UNCHANGED <<globalCfg, now, reqCtx, response, escaped, calls, limits, mw,
                   timers, worker, handled, sent, completed, lookup>>

(* l.logCounter.Add *)
LogAdd ==
    /\ \E g \in goroutine :
         /\ g.pc = "Add"
         /\ Commit(logCounterAdd(World, g.h, g.level))
         /\ goroutine' = (goroutine \ {g}) \cup {[g EXCEPT !.pc = "Record"]}
    /\ UNCHANGED <<globalCfg, now, reqCtx, response, escaped, calls, limits, mw,
                   timers, worker, handled, sent, completed, lookup>>

(* l.durationHist.Record, and the call returns *)
LogRecord ==
    /\ \E g \in goroutine :
         /\ g.pc = "Record"
         /\ Commit(durationHistRecord(World, g.h, g.level))
         /\ goroutine' = goroutine \ {g}
         /\ completed' = [completed EXCEPT ![g.level] = @ + 1]
         /\ calls' = NoteLog(calls, g.h, g.before)
    /\ UNCHANGED <<globalCfg, now, reqCtx, response, escaped, limits, mw,
                   timers, worker, handled, sent, lookup>>

InitConcurrent ==
    InitWith([handles |-> MaxHandles, fields |-> 0, logs |-> MaxLogs + 1,
              events |-> 0])

NextConcurrent ==
    \/ NewCall
    \/ ChildCall
    \/ LogBegin
    \/ LogAdd
    \/ LogRecord

SpecConcurrent == InitConcurrent /\ [][NextConcurrent]_vars

-----------------------------------------------------------------------------
(* Handles carried in contexts: Inject and FromContext, in both variants   *)

(* Inject(ctx, logger) with a handle or with a nil *Eotel *)
InjectAnyCall ==
    /\ Running
    /\ \E l \in Handle \cup {NilEotel}, ctx \in Contexts : reqCtx' = Inject(ctx, l)
    /\ UNCHANGED <<globalCfg, handles, spans, lines, logChan, logCounter,
                   durationHist, now, panicking, response, escaped, captured,
                   calls, limits, mw, exited, timers, worker, handled, sent,
                   goroutine, completed, lookup>>

(* what a lookup that gave fc on ctx is remembered by: the handles and      *)
(* spans there were are as they were                                       *)
Looked(ctx, fc) ==
    [made |-> TRUE, ctx |-> ctx, l |-> fc.l,
     same |-> /\ SubSeq(fc.w.handles, 1, Len(handles)) = handles
              /\ fc.w.spans = spans]

(* FromContext(ctx, name) of src/unnamed/part_001 *)
LookupCall ==
    /\ Running
    /\ \E ctx \in Contexts :
         LET fc == FromContext(World, ctx, "lookup")
         IN /\ Len(fc.w.handles) <= limits.handles
            /\ Commit(fc.w)
            /\ calls' = Track(fc.w, 0)
            /\ lookup' = Looked(ctx, fc)
    /\ UNCHANGED <<globalCfg, now, reqCtx, response, escaped, limits, mw, timers,
                   worker, handled, sent, goroutine, completed>>

(* l.FromContext(ctx, name) of src/eotel.go *)
LookupMethodCall ==
    /\ Running
    /\ \E ctx \in Contexts :
         LET fc == FromContextMethod(World, ctx, "lookup")
         IN /\ Len(fc.w.handles) <= limits.handles
            /\ Commit(fc.w)
            /\ calls' = Track(fc.w, 0)
            /\ lookup' = Looked(ctx, fc)
    /\ UNCHANGED <<globalCfg, now, reqCtx, response, escaped, limits, mw, timers,
                   worker, handled, sent, goroutine, completed>>

InitContext ==
    InitWith([handles |-> MaxHandles, fields |-> 0, logs |-> 1, events |-> 0])

NextContext ==
    \/ NewCall
    \/ LogCall
    \/ InjectAnyCall
    \/ LookupCall
    \/ LookupMethodCall

SpecContext == InitContext /\ [][NextContext]_vars

-----------------------------------------------------------------------------
(* A process that logs and then ends itself with Fatal *)

InitFatal ==
    InitWith([handles |-> MaxHandles, fields |-> 1, logs |-> MaxLogs, events |-> 0])

NextFatal ==
    \/ NewCall
    \/ ChildCall
    \/ WithFieldCall
    \/ WithErrorCall
    \/ LogCall
    \/ FatalCall

SpecFatal == InitFatal /\ [][NextFatal]_vars

-----------------------------------------------------------------------------
(* Properties *)

(* the spans started for handle h *)
SpansOf(h) == {i \in DOMAIN spans : spans[i].owner = h}

(* the attribute sequences passed to a span by endSpan *)
Flushes ==
    UNION {{spans[i].flushes[k] : k \in DOMAIN spans[i].flushes} : i \in DOMAIN spans}

KeyCount(f, k) == Cardinality({j \in DOMAIN f : f[j].key = k})

(* C1: a handle starts at most one span: whatever calls were made on it,   *)
(* at most one span was started for it, and the span it holds is that one  *)
C1_AtMostOneSpan ==
    \A h \in Handle :
        /\ Cardinality(SpansOf(h)) <= 1
        /\ handles[h].span # 0 => SpansOf(h) = {handles[h].span}

(* a handle that logged twice, was given a field, and holds its one span *)
C1_Witness ==
    \E h \in Handle :
        /\ calls[h].logs >= 2
        /\ handles[h].fields # <<>>
        /\ SpansOf(h) = {handles[h].span}

(* C2: over the log calls on a handle its span is ended exactly once and   *)
(* its attributes are flushed exactly once: later log calls neither flush  *)
(* nor end again                                                           *)
C2_EndedAndFlushedOnce ==
    \A i \in DOMAIN spans :
        /\ spans[i].ends <= 1
        /\ Len(spans[i].flushes) <= 1

(* C3: every attribute sequence passed to the span has no duplicate key,   *)
(* holds log.message, log.level and duration_ms exactly once, and holds    *)
(* one attribute per field accumulated on the handle                       *)
C3_FlushIsUnion ==
    \A i \in DOMAIN spans : \A k \in DOMAIN spans[i].flushes :
        LET f == spans[i].flushes[k]
        IN /\ \A a, b \in DOMAIN f : a # b => f[a].key # f[b].key
           /\ KeyCount(f, "log.message") = 1
           /\ KeyCount(f, "log.level") = 1
           /\ KeyCount(f, "duration_ms") = 1
           /\ spans[i].owner # 0 /\ k = Len(spans[i].flushes) =>
                \A x \in DOMAIN f :
                    f[x].key \in {"log.message", "log.level", "duration_ms"}
                    \/ \E y \in DOMAIN handles[spans[i].owner].fields :
                           handles[spans[i].owner].fields[y].key = f[x].key

(* C4: every attribute sequence passed to the span is in non-decreasing    *)
(* order of key                                                            *)
C4_FlushSorted ==
    \A f \in Flushes :
        \A a, b \in DOMAIN f : a < b => ~StringLess(f[b].key, f[a].key)

(* a handle given "z" and then "a", whose attributes were flushed *)
C4_Witness ==
    \E h \in Handle :
        /\ Len(handles[h].fields) >= 2
        /\ handles[h].fields[1].key = "z"
        /\ handles[h].fields[2].key = "a"
        /\ handles[h].span # 0
        /\ spans[handles[h].span].flushes # <<>>

(* C5: a child's span is another span than its parent's, in the same trace *)
C5_ChildInParentTrace ==
    \A c \in Handle :
        LET p == calls[c].parent
        IN p # 0 /\ handles[p].span # 0 =>
             /\ handles[c].span # handles[p].span
             /\ spans[handles[c].span].traceID = spans[handles[p].span].traceID

(* C6: the deferred function of RecoverPanic never lets a panic out, and   *)
(* once it answered, the request was aborted with status 500 and the       *)
(* panic was consumed                                                      *)
C6_RecoveryCompletes ==
    /\ ~escaped
    /\ response # 0 => response = 500 /\ panicking = NoPanic

(* C7: a panic raised under Middleware is answered with status 500 and     *)
(* does not leave the middleware function                                  *)
C7_MiddlewareIntercepts ==
    mw.phase = "done" => ~escaped /\ (panicking # NoPanic => response = 500)

(* C8: no call on a handle panics: the only panic a request sees is its own *)
C8_CallsNeverPanic == panicking \in {NoPanic, "handler failed"}

(* C9: with export enabled every log call left an entry in the export      *)
(* queue, unless the queue was full                                        *)
C9_EveryLogEnqueued ==
    globalCfg.EnableLoki =>
        Len(logChan) = IF LogsUsed < LogChanCap THEN LogsUsed ELSE LogChanCap

(* C10: with export disabled the export queue is empty however many log    *)
(* calls were made                                                         *)
C10_DisabledQueueEmpty == ~globalCfg.EnableLoki => logChan = <<>>

(* export disabled, two log calls made *)
C10_Witness == ~globalCfg.EnableLoki /\ LogsUsed >= 2

(* C11: when the process has ended through Fatal, the span of the handle   *)
(* Fatal was called on has been flushed with the fatal line's attributes   *)
(* and ended                                                               *)
C11_FatalEndsSpanFirst ==
    exited =>
        \A h \in Handle :
            calls[h].fatal > 0 =>
                /\ handles[h].span # 0
                /\ spans[handles[h].span].ends >= 1
                /\ \E f \in Flushes : \E x \in DOMAIN f :
                       f[x].key = "log.level" /\ f[x].value = "fatal"

(* C12: a span that was ended carries the status Error, and a recorded     *)
(* error, exactly when WithError was called with an error on its handle    *)
(* before the log call that ended it                                       *)
C12_ErroredIffWithError ==
    \A h \in Handle :
        LET sp == handles[h].span
        IN sp # 0 /\ spans[sp].ends > 0 =>
             /\ spans[sp].status = "Error" <=> calls[h].errAtLog
             /\ spans[sp].errors > 0 <=> calls[h].errAtLog

(* C13: WithError(nil) is a no-op on every handle, in both variants of the *)
(* handle: the handles, the spans and the errors handed to the reporter    *)
(* are what they were                                                      *)
C13_WithErrorNilNoop ==
    \A l \in Handle :
        /\ WithError(World, l, NilErr) = World
        /\ WithErrorMethod(World, l, NilErr) = World

(* WithError(nil) was called on a handle that holds an error, fields and   *)
(* an ended span                                                           *)
C13_Witness ==
    \E h \in Handle :
        /\ calls[h].nilErrs > 0
        /\ handles[h].err # NilErr
        /\ handles[h].span # 0
        /\ spans[handles[h].span].ends > 0

(* the attributes endSpan added to the accumulator of h: three a flush *)
Decorations(h) ==
    IF handles[h].span = 0 THEN 0 ELSE 3 * Len(spans[handles[h].span].flushes)

(* C14: each WithField call with a key, alone or through WithFields, added *)
(* one field and one attribute to its handle, and a call with the empty    *)
(* key added nothing: a handle that was given the empty key and nothing    *)
(* else is as New left it                                                  *)
C14_WithFieldFrame ==
    \A h \in Handle :
        /\ Len(handles[h].fields) = calls[h].keyed + calls[h].errs
        /\ Len(handles[h].attrs) = calls[h].keyed + calls[h].errs + Decorations(h)
        /\ calls[h].unkeyed > 0 /\ calls[h].logs = 0 /\ calls[h].keyed = 0
              /\ calls[h].errs = 0 /\ calls[h].parent = 0 =>
                  handles[h] = New(World, handles[h].ctx, handles[h].name).handles[Len(handles) + 1]

(* the lines written so far, at all levels *)
LinesWritten ==
    lines.n["info"] + lines.n["warn"] + lines.n["debug"] + lines.n["error"]
    + lines.n["fatal"]

SpanState(hs, sps, h) ==
    IF hs[h].span = 0 THEN 0
    ELSE IF sps[hs[h].span].ends = 0 THEN 1 ELSE 2

(* C16: the span state of a handle never moves back, a handle from New on  *)
(* which nothing was called has no span, and a handle on which SpanEvent,  *)
(* SetSpanAttr or SetSpanError was called has a span                       *)
C16_SpanStateForward ==
    /\ [][\A h \in Handle : SpanState(handles', spans', h) >= SpanState(handles, spans, h)]_vars
    /\ [](\A h \in Handle :
             /\ calls[h].parent = 0 /\ calls[h].logs = 0 /\ calls[h].spanCalls = 0
                   => SpanState(handles, spans, h) = 0
             /\ calls[h].spanCalls > 0 => SpanState(handles, spans, h) >= 1)

(* the events on the span of handle h *)
EventsOf(h) == IF handles[h].span = 0 THEN 0 ELSE spans[handles[h].span].events

(* the Stop calls made on the timers of handle h *)
StopsOf(h) ==
    SumOver([t \in DOMAIN timers |-> IF timers[t].logger = h THEN timers[t].stops ELSE 0],
            Len(timers))

(* C17: every Stop of a timer left one event on the span of the timer's    *)
(* handle, and nothing else did: the events of a handle are as many as the *)
(* Stop calls on its timers                                                *)
C17_StopRecordsOneEvent == \A h \in Handle : EventsOf(h) = StopsOf(h)

(* the entries the worker took from logChan, in the order it took them *)
Taken ==
    [i \in DOMAIN handled |-> handled[i].entry]
    \o (IF worker.pc = "sendLoki" THEN <<worker.entry>> ELSE <<>>)

(* C18: the worker takes the entries in the order they were put on the     *)
(* channel, calls sendLoki once for each, and every entry put on the       *)
(* channel is in the end handled, whatever sendLoki returned before        *)
C18_WorkerHandlesAll ==
    /\ [](Taken \o logChan = sent)
    /\ \A i \in 1..MaxEntries :
         (Len(sent) >= i) ~> (Len(handled) >= i /\ handled[i].entry = sent[i])

(* an entry was handled after the send of the entry before it failed *)
C18_Witness ==
    /\ Len(handled) >= 2
    /\ handled[1].result.err # NilErr
    /\ handled[2].entry = sent[2]

(* the log calls at level lv that made their Add and not yet their Record *)
Added(lv) == Cardinality({g \in goroutine : g.pc = "Record" /\ g.level = lv})

HandlesApart ==
    /\ Len(handles') > Len(handles) =>
          /\ \A h \in Handle : handles'[h] = handles[h]
          /\ \A i \in DOMAIN spans : spans'[i] = spans[i]
          /\ \A c \in (Len(handles) + 1)..Len(handles') :
                /\ handles'[c].fields = <<>>
                /\ handles'[c].attrs = <<>>
                /\ handles'[c].err = NilErr
    /\ \A h, o \in Handle :
          h # o /\ handles'[h] # handles[h] => handles'[o] = handles[o]

(* C20: Child makes a handle with empty accumulators and no error that     *)
(* shares its parent's logger, instruments and exporter; it leaves the     *)
(* parent as it is, and no call on one of the two changes the other        *)
C20_ChildFreshAndShared ==
    /\ [][HandlesApart]_vars
    /\ [](\A c \in Handle :
             LET p == calls[c].parent
             IN p # 0 =>
                  /\ handles[c].logger = handles[p].logger
                  /\ handles[c].logCounter = handles[p].logCounter
                  /\ handles[c].durationHist = handles[p].durationHist
                  /\ handles[c].exporter = handles[p].exporter)

(* C21: FromContext never returns nil; on a context a handle was injected  *)
(* in it returns that handle; and it changes no handle there was and       *)
(* starts no span                                                          *)
C21_LookupReturnsInjected ==
    lookup.made =>
        /\ lookup.l # 0 /\ lookup.l # NilEotel
        /\ lookup.ctx.logger \in Handle => lookup.l = lookup.ctx.logger
        /\ lookup.same

====
